---- MODULE Spec2Model ----
(***************************************************************************)
(* A model of instagram-follow-unfollow-bot.py: the username loader, the   *)
(* action log and its "last followed" query, the login flow, the state     *)
(* prober, the unfollow click, the per-user state machine process_user and *)
(* the budgeted main loop.                                                 *)
(*                                                                         *)
(* The browser is the environment: what a page load, a probe, a click or a *)
(* log write does is an input of the step that performs it.  The record's  *)
(* "ts" field (wall-clock time, never read back) is left out.              *)
(***************************************************************************)
EXTENDS Integers, Sequences, FiniteSets, TLC

\* ------------------------------------------------------------ bounds
MaxUsers == 2        \* longest username list of a run
MaxBudget == 2       \* largest --max-actions of a run
MaxFileLen == 5      \* longest username file, in characters
MaxLogLen == 3       \* longest log handed to load_last_followed on its own
MaxLimit == 2        \* largest limit handed to load_last_followed
MaxButtons == 2      \* most buttons one lookup of get_follow_state returns
MaxRuns == 3         \* most process_user calls made on one account in a row

\* ------------------------------------------------------------ values
None == "None"

\* the usernames of a run, in the order of the input list
NameOrder == <<"alice", "bob", "carol">>

Names == {NameOrder[i] : i \in DOMAIN NameOrder}

Modes == {"follow", "unfollow"}

\* the four values get_follow_state returns (lines 195-202)
States == {"follow", "following", "requested", "unavailable"}

\* repr(e) of a fault caught at line 303: a page-load timeout of open_profile,
\* or an OSError of write_jsonl at line 267
LoadError == "TimeoutException()"
WriteError == "OSError()"

\* args.whitelist absent (whitelist_set is None, line 343) or a set of names
NoWhitelist == [given |-> FALSE, names |-> {}]

Whitelists ==
  {NoWhitelist} \cup {[given |-> TRUE, names |-> S] : S \in {T \in SUBSET Names : Cardinality(T) <= 1}}

\* What the browser and the file system do during one process_user call:
\*   open   open_profile returns (TRUE) or raises (FALSE)
\*   probe1 get_follow_state before the click, probe2 after it
\*   click  the value click_follow / click_unfollow returns
\*   write1 write_jsonl at line 267 returns (TRUE) or raises (FALSE)
\*   write2 the same for write_jsonl at line 306
Envs ==
  [open : BOOLEAN, probe1 : States, click : BOOLEAN, probe2 : States,
   write1 : BOOLEAN, write2 : BOOLEAN]

\* ------------------------------------------------------------ process_user
\* rec as built at lines 253-262
new_record(username, mode) ==
  [username |-> username, mode |-> mode, action |-> None, success |-> FALSE,
   state_before |-> None, state_after |-> None, error |-> None]

\* is_whitelisted with the test of the mode left out
is_whitelisted_any_mode(username, mode, whitelist) ==
  /\ whitelist.given
  /\ whitelist.names # {}
  /\ username \in whitelist.names

\* the condition of line 264; "if whitelist" is false for None and for an empty set
is_whitelisted(username, mode, whitelist) ==
  /\ whitelist.given
  /\ whitelist.names # {}
  /\ username \in whitelist.names
  /\ mode = "unfollow"

\* follow_branch with the clicked follow taken as done, state_after not consulted
follow_branch_unverified(rec, state, env) ==
  IF state = "follow"
  THEN [rec |-> [rec EXCEPT !.state_after = env.probe2,
                            !.action = IF env.click THEN "follow" ELSE "noop_follow_click_failed",
                            !.success = env.click],
        ok |-> <<env.click>>,
        browser |-> <<"click_follow", "get_follow_state">>]
  ELSE IF state \in {"following", "requested"}
  THEN [rec |-> [rec EXCEPT !.action = "noop_already_following", !.success = TRUE],
        ok |-> <<>>, browser |-> <<>>]
  ELSE [rec |-> [rec EXCEPT !.action = "noop_unavailable", !.success = FALSE],
        ok |-> <<>>, browser |-> <<>>]

\* follow_branch clicking Follow whatever the state probed, bar unavailable
follow_branch_reclicks(rec, state, env) ==
  IF state \in {"follow", "following", "requested"}
  THEN [rec |-> [rec EXCEPT !.state_after = env.probe2,
                            !.action = IF env.click THEN "follow" ELSE "noop_follow_click_failed",
                            !.success = env.click /\ env.probe2 \in {"following", "requested"}],
        ok |-> <<env.click>>,
        browser |-> <<"click_follow", "get_follow_state">>]
  ELSE [rec |-> [rec EXCEPT !.action = "noop_unavailable", !.success = FALSE],
        ok |-> <<>>, browser |-> <<>>]

\* lines 275-286; yields the record, the local ok (<<>> while unset) and the
\* browser calls made
follow_branch(rec, state, env) ==
  IF state = "follow"
  THEN [rec |-> [rec EXCEPT !.state_after = env.probe2,
                            !.action = IF env.click THEN "follow" ELSE "noop_follow_click_failed",
                            !.success = env.click /\ env.probe2 \in {"following", "requested"}],
        ok |-> <<env.click>>,
        browser |-> <<"click_follow", "get_follow_state">>]
  ELSE IF state \in {"following", "requested"}
  THEN [rec |-> [rec EXCEPT !.action = "noop_already_following", !.success = TRUE],
        ok |-> <<>>, browser |-> <<>>]
  ELSE [rec |-> [rec EXCEPT !.action = "noop_unavailable", !.success = FALSE],
        ok |-> <<>>, browser |-> <<>>]

\* unfollow_branch clicking on a pending request as well
unfollow_branch_clicks_requested(rec, state, env) ==
  IF state \in {"following", "requested"}
  THEN [rec |-> [rec EXCEPT !.state_after = env.probe2,
                            !.action = IF env.click THEN "unfollow" ELSE "noop_unfollow_click_failed",
                            !.success = env.click /\ env.probe2 \in {"follow", "unavailable"}],
        ok |-> <<env.click>>,
        browser |-> <<"click_unfollow", "get_follow_state">>]
  ELSE IF state = "follow"
  THEN [rec |-> [rec EXCEPT !.action = "noop_not_following", !.success = TRUE],
        ok |-> <<>>, browser |-> <<>>]
  ELSE [rec |-> [rec EXCEPT !.action = "noop_unavailable", !.success = FALSE],
        ok |-> <<>>, browser |-> <<>>]

\* lines 289-300
unfollow_branch(rec, state, env) ==
  IF state = "following"
  THEN [rec |-> [rec EXCEPT !.state_after = env.probe2,
                            !.action = IF env.click THEN "unfollow" ELSE "noop_unfollow_click_failed",
                            !.success = env.click /\ env.probe2 \in {"follow", "unavailable"}],
        ok |-> <<env.click>>,
        browser |-> <<"click_unfollow", "get_follow_state">>]
  ELSE IF state \in {"follow", "requested"}
  THEN [rec |-> [rec EXCEPT !.action = "noop_not_following", !.success = TRUE],
        ok |-> <<>>, browser |-> <<>>]
  ELSE [rec |-> [rec EXCEPT !.action = "noop_unavailable", !.success = FALSE],
        ok |-> <<>>, browser |-> <<>>]

\* lines 271-302, once open_profile has returned
probe_and_act(rec, mode, env) ==
  LET r1 == [rec EXCEPT !.state_before = env.probe1]
      b == IF mode = "follow" THEN follow_branch(r1, env.probe1, env)
           ELSE IF mode = "unfollow" THEN unfollow_branch(r1, env.probe1, env)
           ELSE [rec |-> [r1 EXCEPT !.error = "unknown_mode"], ok |-> <<>>, browser |-> <<>>]
  IN [rec |-> b.rec, ok |-> b.ok, browser |-> <<"get_follow_state">> \o b.browser]

\* lines 306-307: the write outside the try; a fault of it leaves process_user
final_write(rec, ok, browser, env) ==
  [rec |-> rec,
   written |-> IF env.write2 THEN <<rec>> ELSE <<>>,
   raised |-> ~env.write2,
   ok |-> ok,
   browser |-> browser]

\* caught_fault with the handler of lines 303-304 missing: the fault leaves the call
caught_fault_propagates(rec, error, browser, env) ==
  [rec |-> rec, written |-> <<>>, raised |-> TRUE, ok |-> <<>>, browser |-> browser]

\* lines 303-307: a fault raised inside the try is put on the record, which is
\* then written
caught_fault(rec, error, browser, env) ==
  final_write([rec EXCEPT !.error = error], <<>>, browser, env)

\* skip_whitelisted with the return of line 268 missing: the write of line 306 follows
skip_whitelisted_no_return(rec, env) ==
  LET r1 == [rec EXCEPT !.action = "skip_whitelisted", !.success = TRUE]
  IN IF env.write1
     THEN [rec |-> r1, written |-> <<r1>> \o final_write(r1, <<>>, <<>>, env).written,
           raised |-> ~env.write2, ok |-> <<>>, browser |-> <<>>]
     ELSE caught_fault(r1, WriteError, <<>>, env)

\* lines 265-268, and lines 303-307 when the write of line 267 raises
skip_whitelisted(rec, env) ==
  LET r1 == [rec EXCEPT !.action = "skip_whitelisted", !.success = TRUE]
  IN IF env.write1
     THEN [rec |-> r1, written |-> <<r1>>, raised |-> FALSE, ok |-> <<>>, browser |-> <<>>]
     ELSE caught_fault(r1, WriteError, <<>>, env)

\* lines 246-307.  rec: the record as it stands when the call ends; written: the
\* records appended to the log; raised: a fault left the call; ok: the local ok;
\* browser: the browser operations performed, in order.
process_user(username, mode, whitelist, env) ==
  LET r0 == new_record(username, mode)
  IN IF is_whitelisted(username, mode, whitelist)
     THEN skip_whitelisted(r0, env)
     ELSE IF ~env.open
     THEN caught_fault(r0, LoadError, <<"open_profile">>, env)
     ELSE LET o == probe_and_act(r0, mode, env)
          IN final_write(o.rec, o.ok, <<"open_profile">> \o o.browser, env)

\* counted with skip_whitelisted among the tags that are free
counted_skip_free(rec) ==
  IF rec.action \notin {"noop_already_following", "noop_not_following", "skip_whitelisted"}
  THEN 1 ELSE 0

\* line 365: what one returned record adds to actions_done
counted(rec) ==
  IF rec.action \notin {"noop_already_following", "noop_not_following"} THEN 1 ELSE 0

\* ------------------------------------------------------------ read_usernames
\* A file is text, a string of characters; the characters that matter to
\* read_usernames are '@', white space, the line end, the cell delimiter and
\* what a name is made of.
NL == "\n"

Chars == {"@", " ", NL, ",", "a", "b"}

Whitespace == {" ", NL}

\* str.strip() with no argument: white space removed at both ends
RECURSIVE strip(_)
strip(s) ==
  IF s = <<>> THEN <<>>
  ELSE IF s[1] \in Whitespace THEN strip(Tail(s))
  ELSE IF s[Len(s)] \in Whitespace THEN strip(SubSeq(s, 1, Len(s) - 1))
  ELSE s

\* lstrip_at that removes one '@' only
lstrip_one_at(s) == IF s # <<>> /\ s[1] = "@" THEN Tail(s) ELSE s

\* str.lstrip("@"): every leading '@' removed (lines 77 and 83)
RECURSIVE lstrip_at(_)
lstrip_at(s) == IF s # <<>> /\ s[1] = "@" THEN lstrip_at(Tail(s)) ELSE s

\* the lines a text file yields when iterated (line 80), line ends left out:
\* line.strip() removes them in any case
RECURSIVE split_lines(_)
split_lines(text) ==
  IF text = <<>> THEN <<>>
  ELSE IF \E i \in 1..Len(text) : text[i] = NL
  THEN LET i == CHOOSE k \in 1..Len(text) :
                  text[k] = NL /\ \A m \in 1..(k - 1) : text[m] # NL
       IN <<SubSeq(text, 1, i - 1)>> \o split_lines(SubSeq(text, i + 1, Len(text)))
  ELSE <<text>>

\* row[0] of the row csv.reader makes of a line that is not empty, the delimiter
\* being ',' (line 73)
first_cell(line) ==
  IF \E i \in 1..Len(line) : line[i] = ","
  THEN LET i == CHOOSE k \in 1..Len(line) :
                  line[k] = "," /\ \A m \in 1..(k - 1) : line[m] # ","
       IN SubSeq(line, 1, i - 1)
  ELSE line

\* lines 74-77: an empty row is passed over, any other row gives its first cell
RECURSIVE csv_entries(_)
csv_entries(lines) ==
  IF lines = <<>> THEN <<>>
  ELSE LET rest == csv_entries(Tail(lines))
       IN IF lines[1] = <<>> THEN rest
          ELSE <<lstrip_at(strip(first_cell(lines[1])))>> \o rest

\* lines 80-83: a line that is blank once stripped is passed over
RECURSIVE txt_entries(_)
txt_entries(lines) ==
  IF lines = <<>> THEN <<>>
  ELSE LET rest == txt_entries(Tail(lines))
           line == strip(lines[1])
       IN IF line # <<>> THEN <<lstrip_at(line)>> \o rest ELSE rest

\* lines 85-89: empty entries dropped, every other entry kept where it first occurs
RECURSIVE uniq_of(_)
uniq_of(out) ==
  IF out = <<>> THEN <<>>
  ELSE LET front == uniq_of(SubSeq(out, 1, Len(out) - 1))
           u == out[Len(out)]
       IN IF u # <<>> /\ ~(\E i \in 1..Len(front) : front[i] = u)
          THEN Append(front, u) ELSE front

\* the number of ',' in a line
RECURSIVE commas(_)
commas(line) ==
  IF line = <<>> THEN 0 ELSE (IF line[1] = "," THEN 1 ELSE 0) + commas(Tail(line))

\* line 71: csv.Sniffer().sniff(sample, delimiters=",\t;|") settles on ',' when
\* the text has a line that is not empty and all such lines hold the same number
\* of ',', one at least; on any other text over Chars it raises csv.Error
\* ("Could not determine delimiter")
sniff(text) ==
  LET rows == SelectSeq(split_lines(text), LAMBDA l : l # <<>>)
  IN /\ rows # <<>>
     /\ commas(rows[1]) > 0
     /\ \A i \in 1..Len(rows) : commas(rows[i]) = commas(rows[1])

\* lines 64-90.  file.kind: "missing" (line 66), "csv" (suffix .csv or .tsv, line
\* 69) or "txt".  raised: csv.Error left the call.
read_usernames(file) ==
  IF file.kind = "missing" THEN [raised |-> FALSE, list |-> <<>>]
  ELSE IF file.kind = "csv"
  THEN IF sniff(file.text)
       THEN [raised |-> FALSE, list |-> uniq_of(csv_entries(split_lines(file.text)))]
       ELSE [raised |-> TRUE, list |-> <<>>]
  ELSE [raised |-> FALSE, list |-> uniq_of(txt_entries(split_lines(file.text)))]

\* ------------------------------------------------------------ the action log
\* A line of actions.jsonl is the JSON object write_jsonl dumped (the record
\* itself: json.loads gives back the strings, booleans and nulls json.dumps was
\* given) or text that json.loads rejects.
Malformed == [garbage |-> TRUE]

\* lines 92-95: one line appended per call
write_jsonl(file, data) == Append(file, data)

\* list(dict.fromkeys(xs)): every key once, at the place of its first occurrence
RECURSIVE dict_fromkeys(_)
dict_fromkeys(xs) ==
  IF xs = <<>> THEN <<>>
  ELSE LET front == dict_fromkeys(SubSeq(xs, 1, Len(xs) - 1))
           x == xs[Len(xs)]
       IN IF \E i \in 1..Len(front) : front[i] = x THEN front ELSE Append(front, x)

\* followed_of with the test of success left out of the filter
RECURSIVE followed_of_any_success(_)
followed_of_any_success(file) ==
  IF file = <<>> THEN <<>>
  ELSE LET front == followed_of_any_success(SubSeq(file, 1, Len(file) - 1))
           line == file[Len(file)]
       IN IF line = Malformed THEN front
          ELSE IF line.action = "follow" /\ line.username # ""
          THEN Append(front, line.username)
          ELSE front

\* lines 103-109: the usernames of the lines that pass the filter, in file order
RECURSIVE followed_of(_)
followed_of(file) ==
  IF file = <<>> THEN <<>>
  ELSE LET front == followed_of(SubSeq(file, 1, Len(file) - 1))
           line == file[Len(file)]
       IN IF line = Malformed THEN front
          ELSE IF line.action = "follow" /\ line.success = TRUE /\ line.username # ""
          THEN Append(front, line.username)
          ELSE front

\* xs[-k:] of Python, for any integer k # 0
py_tail(xs, k) ==
  IF k > 0
  THEN IF k >= Len(xs) THEN xs ELSE SubSeq(xs, Len(xs) - k + 1, Len(xs))
  ELSE IF -k >= Len(xs) THEN <<>> ELSE SubSeq(xs, -k + 1, Len(xs))

\* limit=None of load_last_followed
NoLimit == [given |-> FALSE, n |-> 0]

\* lines 97-112.  "if limit" is false for None and for 0.
load_last_followed(exists, file, limit) ==
  IF ~exists THEN <<>>
  ELSE IF limit.given /\ limit.n # 0
  THEN py_tail(dict_fromkeys(followed_of(file)), limit.n)
  ELSE dict_fromkeys(followed_of(file))

\* ------------------------------------------------------------ ig_login
\* line 153: range(1, 6)
LoginAttempts == 5

\* line 155: the test on driver.current_url; a URL is what the two substring
\* tests see of it
Urls == [instagram : BOOLEAN, login : BOOLEAN]

url_authenticated(url) == url.instagram /\ ~url.login

\* lines 59-62: the delay before the jitter, in tenths of a second
backoff_delay(attempt) ==
  LET d == 8 * 2 ^ (attempt - 1) IN IF d < 120 THEN d ELSE 120

\* what one "Not now" lookup of lines 159-161 leaves behind: the button was
\* clicked, or find_element or click raised and the fault was swallowed (162-163)
dismiss(found) == IF found THEN "clicked" ELSE "swallowed"

\* login_attempt with the dialogs dismissed before the URL is looked at
login_attempt_dismiss_first(url, found) ==
  IF url_authenticated(url)
  THEN [stop |-> TRUE,
        did |-> <<"jitter_sleep", dismiss(found[1]), dismiss(found[2]), "current_url">>]
  ELSE [stop |-> FALSE,
        did |-> <<"jitter_sleep", dismiss(found[1]), dismiss(found[2]), "current_url",
                  "backoff_sleep">>]

\* lines 153-164, one iteration: whether the loop is left (line 156), and what
\* the iteration did, in order: the sleep of line 154, the URL test of line 155,
\* one "Not now" lookup per text of line 158, the backoff of line 164.
\* found[k]: the button with the k-th text is there and takes the click.
login_attempt(url, found) ==
  IF url_authenticated(url)
  THEN [stop |-> TRUE, did |-> <<"jitter_sleep", "current_url">>]
  ELSE [stop |-> FALSE,
        did |-> <<"jitter_sleep", "current_url", dismiss(found[1]), dismiss(found[2]),
                  "backoff_sleep">>]

\* lines 134-149: what the login page does to ig_login before the loop.
\*   loaded     driver.get of line 134 returns (it raises on a page-load timeout)
\*   present    the wait of line 138 ends without a timeout
\*   user_ok    the wait of line 143 finds a clickable username field
\*   pass_ok    the same for the password field at line 144
\*   submit_ok  line 148 finds the submit button and line 149 clicks it
\* The wait of line 143 starts after that of line 138 has ended, so a field
\* that renders late may time out the first and satisfy the second.  A page that
\* did not load shows nothing.
LoginPages ==
  {p \in [loaded : BOOLEAN, present : BOOLEAN, user_ok : BOOLEAN, pass_ok : BOOLEAN,
          submit_ok : BOOLEAN] :
     ~p.loaded => (~p.present /\ ~p.user_ok /\ ~p.pass_ok /\ ~p.submit_ok)}

\* lines 134-149: the fault that leaves ig_login before the loop, or None.  The
\* timeout of line 138 is caught (lines 139-140); driver.get, the waits of lines
\* 143 and 144 and the lookup and click of lines 148-149 are not guarded.
login_fill(page) ==
  IF ~page.loaded THEN "TimeoutException@134"
  ELSE IF ~page.user_ok THEN "TimeoutException@143"
  ELSE IF ~page.pass_ok THEN "TimeoutException@144"
  ELSE IF ~page.submit_ok THEN "WebDriverException@148"
  ELSE None

\* ------------------------------------------------------------ get_follow_state
\* line 179: the four XPath candidates, tried in list order
Candidates == 4

\* The text of a button, as far as lines 193-199 look at it: the word it spells,
\* whether it has capitals, whether white space surrounds it.
Label(word, capital, padded) == [word |-> word, capital |-> capital, padded |-> padded]

\* str.strip() and str.lower() on such a text
label_strip(l) == [l EXCEPT !.padded = FALSE]

label_lower(l) == [l EXCEPT !.capital = FALSE]

\* the string literal a label is compared with at lines 194-198
literal(word) == Label(word, FALSE, FALSE)

\* the texts buttons of a profile header carry: 'Follow', ' Following ',
\* 'requested', and 'Message', which the prober does not know
ButtonTexts ==
  {Label("follow", TRUE, FALSE), Label("following", TRUE, TRUE),
   Label("requested", FALSE, FALSE), Label("message", TRUE, FALSE)}

\* A button found by a lookup: what b.is_displayed() does ("yes", "no", or
\* "raises": the element went stale), and what b.text gives (<<>>: the read raises)
Buttons ==
  [displayed : {"yes", "no", "raises"},
   text : {<<>>} \cup {<<t>> : t \in ButtonTexts}]

\* What driver.find_elements does for one candidate (line 188): it raises, or it
\* returns a list of buttons, which may be empty
Lookups ==
  {[raised |-> TRUE, btns |-> <<>>]}
    \cup {[raised |-> FALSE, btns |-> bs] : bs \in UNION {[1..n -> Buttons] : n \in 0..MaxButtons}}

\* line 192: next((b for b in btns if b.is_displayed()), btns[0]).  The generator
\* asks the buttons in order and stops at the first that is displayed; a fault
\* of is_displayed leaves the expression.  <<>>: raised; <<k>>: button k chosen.
RECURSIVE first_displayed(_, _)
first_displayed(btns, k) ==
  IF k > Len(btns) THEN <<1>>
  ELSE IF btns[k].displayed = "raises" THEN <<>>
  ELSE IF btns[k].displayed = "yes" THEN <<k>>
  ELSE first_displayed(btns, k + 1)

\* lines 194-199: the state a stripped label stands for, None if it stands for none
state_of_label(label) ==
  IF label_lower(label) = literal("follow") THEN "follow"
  ELSE IF label_lower(label) = literal("following") THEN "following"
  ELSE IF label_lower(label) = literal("requested") THEN "requested"
  ELSE None

\* try_candidate with an unknown label taken for the answer: no further candidate
\* is tried
try_candidate_no_fallthrough(found) ==
  IF found.raised THEN [path |-> "lookup_raised", state |-> None]
  ELSE IF found.btns = <<>> THEN [path |-> "no_match", state |-> None]
  ELSE LET pick == first_displayed(found.btns, 1)
       IN IF pick = <<>> THEN [path |-> "displayed_raised", state |-> None]
          ELSE LET btn == found.btns[pick[1]]
               IN IF btn.text = <<>> THEN [path |-> "text_raised", state |-> None]
                  ELSE LET state == state_of_label(label_strip(btn.text[1]))
                       IN IF state # None THEN [path |-> "return", state |-> state]
                          ELSE [path |-> "return", state |-> "unavailable"]

\* lines 187-201, one iteration of the loop: the path taken through it and,
\* where that path is a return, the state returned
try_candidate(found) ==
  IF found.raised THEN [path |-> "lookup_raised", state |-> None]
  ELSE IF found.btns = <<>> THEN [path |-> "no_match", state |-> None]
  ELSE LET pick == first_displayed(found.btns, 1)
       IN IF pick = <<>> THEN [path |-> "displayed_raised", state |-> None]
          ELSE LET btn == found.btns[pick[1]]
               IN IF btn.text = <<>> THEN [path |-> "text_raised", state |-> None]
                  ELSE LET state == state_of_label(label_strip(btn.text[1]))
                       IN IF state # None THEN [path |-> "return", state |-> state]
                          ELSE [path |-> "unrecognised", state |-> None]

\* ------------------------------------------------------------ click_unfollow
\* lines 227-230: the two XPaths of the confirmation button, the generic one
\* first, the one scoped to the dialog second
ConfirmXPaths == 2

\* What a control does to the script: wait, how WebDriverWait(...).until(
\* element_to_be_clickable) ends ("clickable", "timeout", or "raises" for any
\* other fault); click, what clicking the element does ("ok" or "raises")
Controls == [wait : {"clickable", "timeout", "raises"}, click : {"ok", "raises"}]

\* the profile as click_unfollow meets it: the 'Following' button, and the
\* confirmation button as each XPath finds it
UnfollowPages == [following : Controls, confirms : [1..ConfirmXPaths -> Controls]]

\* whether a control takes the click: the wait returns it and the click goes through
takes_click(control) == control.wait = "clickable" /\ control.click = "ok"

\* the operations on one control, up to the one that raised
operations(control, name) ==
  IF control.wait # "clickable" THEN <<"wait_" \o name>>
  ELSE <<"wait_" \o name, "click_" \o name>>

\* lines 231-240: the confirmation XPaths from the k-th on; the first one whose
\* button takes the click ends the call with True, a fault moves on to the next
RECURSIVE confirm(_, _)
confirm(confirms, k) ==
  IF k > ConfirmXPaths THEN [value |-> FALSE, did |-> <<>>]
  ELSE LET did == operations(confirms[k], "confirm")
       IN IF takes_click(confirms[k])
          THEN [value |-> TRUE, did |-> did]
          ELSE [value |-> confirm(confirms, k + 1).value,
                did |-> did \o confirm(confirms, k + 1).did]

\* click_unfollow with the click on 'Following' taken for the unfollow
click_unfollow_unconfirmed(page) ==
  IF ~takes_click(page.following)
  THEN [value |-> FALSE, did |-> operations(page.following, "following")]
  ELSE [value |-> TRUE,
        did |-> operations(page.following, "following") \o confirm(page.confirms, 1).did]

\* lines 216-242: the value returned and the operations performed on the page,
\* in order; a fault of the wait or the click on 'Following' is caught by the
\* outer handler (lines 241-242)
click_unfollow(page) ==
  IF ~takes_click(page.following)
  THEN [value |-> FALSE, did |-> operations(page.following, "following")]
  ELSE [value |-> confirm(page.confirms, 1).value,
        did |-> operations(page.following, "following") \o confirm(page.confirms, 1).did]

\* ------------------------------------------------------------ main: the state
VARIABLES
  args,          \* the parsed command line (lines 313-326)
  usernames,     \* the resolved list (lines 332-338)
  pc,            \* where main stands
  driver,        \* "none", "open" or "quit": the browser session
  login,         \* the locals of ig_login while it runs
  idx,           \* position of the for loop of line 353 in usernames
  actions_done,  \* line 351
  log,           \* the lines of actions.jsonl
  calls,         \* what every process_user call of this run did, in order
  sleeps,        \* pacing sleeps of line 368 taken
  printed,       \* the Processed= number of line 370, <<>> until printed
  exc,           \* the fault travelling up main, None if there is none
  status,        \* the exit status once the process has ended
  session,       \* how often build_driver returned and driver.quit() was called
  pacing,        \* the duration of the pacing sleep of the latest iteration
  fn_in,         \* the arguments of a function called on its own, or what it
                 \* has met so far of the page it works on
  fn_out         \* what that call returned, <<>> before it has

vars ==
  <<args, usernames, pc, driver, login, idx, actions_done, log, calls, sleeps,
    printed, exc, status, session, pacing, fn_in, fn_out>>

\* the lists read_usernames returns in the runs considered: no blanks, no
\* duplicates (lines 85-90); which of the names are whitelisted varies
UserLists == {SubSeq(NameOrder, 1, n) : n \in 0..MaxUsers}

\* args.input: absent, or a file with the list read_usernames gets from it
Inputs == {[given |-> FALSE, list |-> <<>>]} \cup {[given |-> TRUE, list |-> us] : us \in UserLists}

\* a record of a follow that succeeded, as an earlier run wrote it
followed_record(u) ==
  [new_record(u, "follow") EXCEPT
     !.state_before = "follow", !.state_after = "following", !.action = "follow",
     !.success = TRUE]

\* actions.jsonl as earlier runs left it
PriorLogs == {<<>>, <<followed_record("alice"), followed_record("bob")>>}

\* lines 321-322: the defaults of --min-wait and --max-wait, in seconds
MinWait == 6

MaxWait == 12

\* read_fault: the file, if any, whose reading raises (csv.Error at line 71, an
\* OSError of open): "input" (line 336) or "whitelist" (line 343)
ArgSets ==
  [has_creds : BOOLEAN, mode : Modes, last_followed_only : BOOLEAN, input : Inputs,
   max_actions : -1..MaxBudget, whitelist : Whitelists,
   read_fault : {None, "input", "whitelist"},
   min_wait : {MinWait}, max_wait : {MaxWait}]

\* build_driver has not run, driver.quit() has not been called
NoSession == [built |-> 0, quits |-> 0]

\* attempt: the loop variable; checks: URL tests made; did: what the latest
\* iteration did; delay: the latest backoff delay; authenticated: the loop was
\* left by the break of line 156; page: what the login page did to lines 137-149
LoginIdle == [attempt |-> 0, checks |-> 0, did |-> <<>>, delay |-> 0,
              authenticated |-> FALSE, page |-> <<>>]

\* lines 332-338: the resolved list, or <<"SystemExit">> when no source is given.
\* A log file that does not exist reads like an empty one (lines 99-100).
resolve_usernames(a, file) ==
  IF a.last_followed_only /\ a.mode = "unfollow"
  THEN [ok |-> TRUE, list |-> load_last_followed(file # <<>>, file, NoLimit)]
  ELSE IF a.input.given
  THEN [ok |-> TRUE, list |-> a.input.list]
  ELSE [ok |-> FALSE, list |-> <<>>]

\* line 336 is reached and read_usernames raises there
input_fault(a) ==
  /\ a.read_fault = "input"
  /\ a.has_creds
  /\ ~(a.last_followed_only /\ a.mode = "unfollow")
  /\ a.input.given

\* config_error without the test of line 340
config_error_allows_empty(a, file) ==
  \/ ~a.has_creds
  \/ ~resolve_usernames(a, file).ok

\* lines 328-341: the configuration is rejected before build_driver is reached
config_error(a, file) ==
  \/ ~a.has_creds
  \/ ~resolve_usernames(a, file).ok
  \/ resolve_usernames(a, file).list = <<>>

\* line 343 is reached and read_usernames raises there
whitelist_fault(a, file) ==
  /\ a.read_fault = "whitelist"
  /\ ~input_fault(a)
  /\ ~config_error(a, file)
  /\ a.whitelist.given

Init ==
  /\ args \in ArgSets
  /\ log \in PriorLogs
  \* a prior log is read only by --last-followed-only with --mode unfollow, which
  \* in turn ignores --input (lines 333-336)
  /\ (args.last_followed_only /\ args.mode = "unfollow") => ~args.input.given
  /\ ~(args.last_followed_only /\ args.mode = "unfollow") => log = <<>>
  \* a file that cannot be read is one that is read, and it yields nothing
  /\ args.read_fault = "input" => (input_fault(args) /\ args.input.list = <<>>)
  /\ args.read_fault = "whitelist" => (whitelist_fault(args, log) /\ args.whitelist.names = {})
  /\ usernames = <<>>
  /\ pc = "start"
  /\ driver = "none"
  /\ login = LoginIdle
  /\ idx = 1
  /\ actions_done = 0
  /\ calls = <<>>
  /\ sleeps = 0
  /\ printed = <<>>
  /\ exc = None
  /\ status = None
  /\ session = NoSession
  /\ pacing = <<>>
  /\ fn_in = <<>>
  /\ fn_out = <<>>

\* ------------------------------------------------------------ main: the steps
\* lines 328-341 raising SystemExit(message): exit status 1, no browser
ConfigExit ==
  /\ pc = "start"
  /\ ~input_fault(args)
  /\ config_error(args, log)
  /\ pc' = "exited"
  /\ status' = 1
  /\ UNCHANGED <<args, usernames, driver, login, idx, actions_done, log, calls, sleeps,
                 printed, exc>>
  /\ UNCHANGED <<session, pacing, fn_in, fn_out>>

\* lines 336 and 343: read_usernames raises; nothing catches the fault, the
\* process ends with a traceback and exit status 1
ReadFault ==
  /\ pc = "start"
  /\ input_fault(args) \/ whitelist_fault(args, log)
  /\ pc' = "exited"
  /\ exc' = "read_usernames"
  /\ status' = 1
  /\ UNCHANGED <<args, usernames, driver, login, idx, actions_done, log, calls, sleeps,
                 printed>>
  /\ UNCHANGED <<session, pacing, fn_in, fn_out>>

\* lines 328-348 with a valid configuration; build_driver returns or raises
\* (it runs before the try of line 349, so its fault ends the process)
Setup ==
  /\ pc = "start"
  /\ ~input_fault(args)
  /\ ~config_error(args, log)
  /\ ~whitelist_fault(args, log)
  /\ usernames' = resolve_usernames(args, log).list
  /\ \E built \in BOOLEAN :
       IF built
       THEN /\ driver' = "open"
            /\ session' = [session EXCEPT !.built = @ + 1]
            /\ pc' = "login"
            /\ UNCHANGED <<exc, status>>
       ELSE /\ driver' = "none"
            /\ pc' = "exited"
            /\ exc' = "build_driver"
            /\ status' = 1
            /\ UNCHANGED session
  /\ UNCHANGED <<args, login, idx, actions_done, log, calls, sleeps, printed>>
  /\ UNCHANGED <<pacing, fn_in, fn_out>>

\* ig_login, lines 134-149
LoginFill ==
  /\ pc = "login"
  /\ \E page \in LoginPages :
       LET fault == login_fill(page)
       IN /\ login' = [LoginIdle EXCEPT !.page = <<page>>,
                                        !.attempt = IF fault = None THEN 1 ELSE 0]
          /\ exc' = fault
          /\ pc' = IF fault = None THEN "login_check" ELSE "finally"
  /\ UNCHANGED <<args, usernames, driver, idx, actions_done, log, calls, sleeps, printed,
                 status>>
  /\ UNCHANGED <<session, pacing, fn_in, fn_out>>

\* ig_login, one iteration of the loop of lines 153-164
LoginAttempt ==
  /\ pc = "login_check"
  /\ \E url \in Urls, found \in [1..2 -> BOOLEAN] :
       LET r == login_attempt(url, found)
           last == r.stop \/ login.attempt = LoginAttempts
       IN /\ login' = [login EXCEPT
                         !.checks = @ + 1,
                         !.did = r.did,
                         !.delay = IF r.stop THEN @ ELSE backoff_delay(login.attempt),
                         !.authenticated = r.stop,
                         !.attempt = IF last THEN @ ELSE @ + 1]
          /\ pc' = IF last THEN "login_return" ELSE "login_check"
  /\ UNCHANGED <<args, usernames, driver, idx, actions_done, log, calls, sleeps, printed,
                 exc, status>>
  /\ UNCHANGED <<session, pacing, fn_in, fn_out>>

\* ig_login returns (its locals are gone); line 351
LoginReturn ==
  /\ pc = "login_return"
  /\ login' = LoginIdle
  /\ actions_done' = 0
  /\ pc' = "loop"
  /\ UNCHANGED <<args, usernames, driver, idx, log, calls, sleeps, printed, exc, status>>
  /\ UNCHANGED <<session, pacing, fn_in, fn_out>>

\* budget_left with the test of line 354 off by one
budget_left_off_by_one(done, max_actions) == ~(done > max_actions)

\* line 354: the loop goes on only while this holds
budget_left(done, max_actions) == ~(done >= max_actions)

\* random.uniform(a, b) of line 57: a, b, or a value between the two, of which
\* the middle one stands for all
uniform(a, b) == {a, (a + b) \div 2, b}

\* lines 55-57: the durations jitter_sleep(min_s, max_s) may sleep
jitter_sleep(min_s, max_s) == uniform(min_s, max_s)

\* paces with no sleep after a user that did not count toward the budget
paces_counted_only(rec) == counted(rec)

\* line 368: the pacing sleeps that follow a returned process_user call; the
\* sleep is not conditional on the record
paces(rec) == 1

\* what a process_user call of main can do, for everything the browser and the
\* file system can do during it
Outcomes ==
  [u \in Names, m \in Modes, w \in Whitelists |-> {process_user(u, m, w, env) : env \in Envs}]

\* lines 353-368: one iteration that gets past the test of line 354
ProcessUser ==
  /\ pc = "loop"
  /\ idx <= Len(usernames)
  /\ budget_left(actions_done, args.max_actions)
  /\ \E r \in Outcomes[usernames[idx], args.mode, args.whitelist] :
       /\ log' = log \o r.written
       /\ calls' = Append(calls, r)
       /\ IF r.raised
          THEN /\ exc' = WriteError
               /\ pc' = "finally"
               /\ pacing' = <<>>
               /\ UNCHANGED <<idx, actions_done, sleeps>>
          ELSE /\ actions_done' = actions_done + counted(r.rec)
               /\ sleeps' = sleeps + paces(r.rec)
               /\ IF paces(r.rec) = 1
                  THEN \E d \in jitter_sleep(args.min_wait, args.max_wait) : pacing' = <<d>>
                  ELSE pacing' = <<>>
               /\ idx' = idx + 1
               /\ UNCHANGED <<exc, pc>>
  /\ UNCHANGED <<args, usernames, driver, login, printed, status>>
  /\ UNCHANGED <<session, fn_in, fn_out>>

\* min(args.max_actions, len(usernames)) of line 370
processed_printed(max_actions, n) == IF max_actions < n THEN max_actions ELSE n

\* the loop ends, by the break of line 355 or at the end of the list; line 370
LoopExit ==
  /\ pc = "loop"
  /\ idx > Len(usernames) \/ ~budget_left(actions_done, args.max_actions)
  /\ printed' = <<processed_printed(args.max_actions, Len(usernames))>>
  /\ pc' = "finally"
  /\ pacing' = <<>>
  /\ UNCHANGED <<args, usernames, driver, login, idx, actions_done, log, calls, sleeps,
                 exc, status>>
  /\ UNCHANGED <<session, fn_in, fn_out>>

\* release with a fault of driver.quit() taking the place of no fault
release_propagates(pending, quit_ok) ==
  IF quit_ok \/ pending # None THEN pending ELSE "WebDriverException@373"

\* lines 372-375: the fault travelling up once driver.quit() has been tried; a
\* fault of quit itself is swallowed
release(pending, quit_ok) == pending

\* lines 371-375: driver.quit() is attempted, its own fault swallowed; then the
\* process ends, with the pending fault if there is one
Finally ==
  /\ pc = "finally"
  /\ \E quit_ok \in BOOLEAN :
       /\ driver' = IF quit_ok THEN "quit" ELSE "quit_failed"
       /\ exc' = release(exc, quit_ok)
  /\ session' = [session EXCEPT !.quits = @ + 1]
  /\ pc' = "exited"
  /\ status' = IF exc' = None THEN 0 ELSE 1
  /\ UNCHANGED <<args, usernames, login, idx, actions_done, log, calls, sleeps, printed>>
  /\ UNCHANGED <<pacing, fn_in, fn_out>>

Next ==
  \/ ConfigExit
  \/ ReadFault
  \/ Setup
  \/ LoginFill
  \/ LoginAttempt
  \/ LoginReturn
  \/ ProcessUser
  \/ LoopExit
  \/ Finally

Spec == Init /\ [][Next]_vars

\* main is one thread of blocking calls, each with a timeout: it keeps stepping
FairSpec == Spec /\ WF_vars(Next)

\* ------------------------------------------------------------ functions on their own
\* main does not run in the specifications below
IdleArgs ==
  [has_creds |-> FALSE, mode |-> "follow", last_followed_only |-> FALSE,
   input |-> [given |-> FALSE, list |-> <<>>], max_actions |-> 0, whitelist |-> NoWhitelist,
   read_fault |-> None, min_wait |-> MinWait, max_wait |-> MaxWait]

MainIdle ==
  /\ args = IdleArgs
  /\ usernames = <<>>
  /\ driver = "none"
  /\ login = LoginIdle
  /\ idx = 1
  /\ actions_done = 0
  /\ log = <<>>
  /\ calls = <<>>
  /\ sleeps = 0
  /\ printed = <<>>
  /\ exc = None
  /\ status = None
  /\ session = NoSession
  /\ pacing = <<>>

MainVars ==
  <<args, usernames, driver, login, idx, actions_done, log, calls, sleeps, printed, exc,
    status, session, pacing>>

\* the lines '@alice', 'bob', 'alice', ' ', 'carol', a letter for a name
ExampleText == <<"@", "a", NL, "b", NL, "a", NL, " ", NL, "c">>

Texts == UNION {[1..n -> Chars] : n \in 0..MaxFileLen} \cup {ExampleText}

Files ==
  {[kind |-> "missing", text |-> <<>>]}
    \cup {[kind |-> k, text |-> t] : k \in {"txt", "csv"}, t \in Texts}

InitLoader ==
  /\ fn_in \in Files
  /\ fn_out = <<>>
  /\ pc = "call"
  /\ MainIdle

\* read_usernames(path) is called and returns or raises
ReadUsernames ==
  /\ pc = "call"
  /\ fn_in \in Files
  /\ fn_out' = <<read_usernames(fn_in)>>
  /\ pc' = "returned"
  /\ UNCHANGED <<fn_in, MainVars>>

SpecLoader == InitLoader /\ [][ReadUsernames]_vars

\* the users of the logs below
LogNames == {"alice", "bob"}

\* what the browser does in the calls that wrote them
LogEnvs ==
  {e \in Envs : /\ e.probe1 \in {"follow", "following"}
                /\ e.probe2 \in {"follow", "following"}
                /\ e.write1 /\ e.write2}

\* the lines of a log: records process_user writes, and lines that are not JSON
LogLines ==
  {process_user(u, m, w, e).written[1] :
     u \in LogNames, m \in Modes, w \in {NoWhitelist, [given |-> TRUE, names |-> LogNames]},
     e \in LogEnvs}
    \cup {Malformed}

LogFiles == UNION {[1..n -> LogLines] : n \in 0..MaxLogLen}

\* no limit, or a positive one (line 110 reads a limit of 0 as no limit)
Limits == {NoLimit} \cup {[given |-> TRUE, n |-> k] : k \in 1..MaxLimit}

InitLog ==
  /\ fn_in \in [file : LogFiles, limit : Limits]
  /\ fn_out = <<>>
  /\ pc = "call"
  /\ MainIdle

\* load_last_followed(log_path, limit) is called on a log that exists
LoadLastFollowed ==
  /\ pc = "call"
  /\ fn_in \in [file : LogFiles, limit : Limits]
  /\ fn_out' = <<load_last_followed(TRUE, fn_in.file, fn_in.limit)>>
  /\ pc' = "returned"
  /\ UNCHANGED <<fn_in, MainVars>>

SpecLog == InitLog /\ [][LoadLastFollowed]_vars

\* get_follow_state on its own.  fn_in holds its position in the loop of line
\* 186: xp, the candidate being tried; found, what its lookup returned, <<>>
\* before the lookup; paths, the path each iteration so far took.
InitProbe ==
  /\ fn_in = [xp |-> 1, found |-> <<>>, paths |-> <<>>]
  /\ fn_out = <<>>
  /\ pc = "call"
  /\ MainIdle

\* line 188: the lookup of the next candidate, on whatever the page shows
FindElements ==
  /\ pc = "call"
  /\ fn_in.xp <= Candidates
  /\ fn_in.found = <<>>
  /\ \E found \in Lookups : fn_in' = [fn_in EXCEPT !.found = <<found>>]
  /\ UNCHANGED <<pc, fn_out, MainVars>>

\* lines 187-201: what the iteration makes of the lookup
TryCandidate ==
  /\ pc = "call"
  /\ fn_in.found # <<>>
  /\ LET r == try_candidate(fn_in.found[1])
     IN IF r.path = "return"
        THEN /\ fn_in' = [fn_in EXCEPT !.paths = Append(@, r.path)]
             /\ fn_out' = <<r.state>>
             /\ pc' = "returned"
        ELSE /\ fn_in' = [xp |-> fn_in.xp + 1, found |-> <<>>, paths |-> Append(fn_in.paths, r.path)]
             /\ UNCHANGED <<fn_out, pc>>
  /\ UNCHANGED MainVars

\* line 202: the candidates are used up
ProbeUnavailable ==
  /\ pc = "call"
  /\ fn_in.xp > Candidates
  /\ fn_out' = <<"unavailable">>
  /\ pc' = "returned"
  /\ UNCHANGED <<fn_in, MainVars>>

SpecProbe == InitProbe /\ [][FindElements \/ TryCandidate \/ ProbeUnavailable]_vars

\* process_user called again and again, in follow mode, for one account.
\* fn_in.account is what the account's profile shows: the state the prober
\* reports when the page renders.  fn_out holds the calls made so far.
InitRuns ==
  /\ fn_in \in [username : {"alice"}, account : States,
                whitelist : {NoWhitelist, [given |-> TRUE, names |-> {"alice"}]}]
  /\ fn_out = <<>>
  /\ pc = "call"
  /\ MainIdle

\* whether a call clicked Follow
clicked_follow(r) == \E k \in 1..Len(r.browser) : r.browser[k] = "click_follow"

\* One more run of process_user(driver, username, "follow", ...).  The prober
\* reports what the profile shows, or unavailable when the header has not
\* rendered; a Follow click that returned true leaves the account followed,
\* requested (a private account) or as it was (the click did not take); nothing
\* but a click of the script changes the account.
FollowRun ==
  /\ pc = "call"
  /\ Len(fn_out) < MaxRuns
  /\ \E env \in Envs, after \in {"follow", "following", "requested"} :
       LET r == process_user(fn_in.username, "follow", fn_in.whitelist, env)
           took == clicked_follow(r) /\ env.click
           account == IF took THEN after ELSE fn_in.account
       IN /\ env.probe1 \in {fn_in.account, "unavailable"}
          /\ env.probe2 \in {account, "unavailable"}
          /\ fn_in' = [fn_in EXCEPT !.account = account]
          /\ fn_out' = Append(fn_out, r)
  /\ UNCHANGED <<pc, MainVars>>

SpecRuns == InitRuns /\ [][FollowRun]_vars

\* click_unfollow on its own
InitUnfollow ==
  /\ fn_in \in UnfollowPages
  /\ fn_out = <<>>
  /\ pc = "call"
  /\ MainIdle

\* click_unfollow(driver) is called and returns
ClickUnfollow ==
  /\ pc = "call"
  /\ fn_in \in UnfollowPages
  /\ fn_out' = <<click_unfollow(fn_in)>>
  /\ pc' = "returned"
  /\ UNCHANGED <<fn_in, MainVars>>

SpecUnfollow == InitUnfollow /\ [][ClickUnfollow]_vars

\* ------------------------------------------------------------ properties
\* the usernames process_user was called with, in call order
Processed == [i \in 1..Len(calls) |-> calls[i].rec.username]

\* a step of main in which process_user was called
Called == Len(calls') = Len(calls) + 1

\* the call such a step made
NewCall == calls'[Len(calls')]

\* The table of section 4.4 of the specification, rows 2 to 7.
TableTag(mode, state_before) ==
  IF mode = "follow"
  THEN CASE state_before = "follow" -> "follow"
         [] state_before \in {"following", "requested"} -> "noop_already_following"
         [] OTHER -> "noop_unavailable"
  ELSE CASE state_before = "following" -> "unfollow"
         [] state_before \in {"follow", "requested"} -> "noop_not_following"
         [] OTHER -> "noop_unavailable"

TableSuccess(mode, state_before, click_ok, state_after) ==
  IF mode = "follow"
  THEN CASE state_before = "follow" -> click_ok /\ state_after \in {"following", "requested"}
         [] state_before \in {"following", "requested"} -> TRUE
         [] OTHER -> FALSE
  ELSE CASE state_before = "following" -> click_ok /\ state_after \in {"follow", "unavailable"}
         [] state_before \in {"follow", "requested"} -> TRUE
         [] OTHER -> FALSE

\* the rows of the table that click
Clicks(mode, state_before) ==
  \/ mode = "follow" /\ state_before = "follow"
  \/ mode = "unfollow" /\ state_before = "following"

\* a call that probed the profile and wrote its record
Probed(c) == c.rec.state_before # None /\ c.written # <<>>

\* the value of the local ok of a call, FALSE where no click was made
ClickOk(c) == c.ok = <<TRUE>>

\* C1 as stated: every record written after a probe carries the action tag and the
\* success value of the table row for (mode, state_before), whatever the click
\* returned and whatever the second probe saw.
C1_MatchesTable ==
  \A i \in 1..Len(calls) :
    LET c == calls[i] r == c.written[1]
    IN Probed(c) =>
         /\ r.action = TableTag(r.mode, r.state_before)
         /\ r.success = TableSuccess(r.mode, r.state_before, ClickOk(c), r.state_after)

\* C1 amended: the success value is the table's in every row; the action tag is
\* the table's in every row that does not click and in a clicking row whose click
\* returned true; a clicking row whose click returned false is tagged
\* noop_follow_click_failed (follow mode) or noop_unfollow_click_failed (unfollow
\* mode), with success false.
C1_MatchesTableOrClickFailed ==
  \A i \in 1..Len(calls) :
    LET c == calls[i] r == c.written[1]
    IN Probed(c) =>
         /\ r.success = TableSuccess(r.mode, r.state_before, ClickOk(c), r.state_after)
         /\ IF Clicks(r.mode, r.state_before) /\ ~ClickOk(c)
            THEN /\ r.action = (IF r.mode = "follow" THEN "noop_follow_click_failed"
                                ELSE "noop_unfollow_click_failed")
                 /\ r.success = FALSE
            ELSE r.action = TableTag(r.mode, r.state_before)
         /\ (Clicks(r.mode, r.state_before) <=> r.state_after # None)

\* a follow whose click returned true and was verified next to an unfollow click
\* that returned false
C1_Witness ==
  \E i, j \in 1..Len(calls) :
    /\ Probed(calls[i]) /\ Probed(calls[j])
    /\ calls[i].rec.state_before = "following" /\ calls[i].rec.mode = "unfollow"
    /\ calls[i].ok = <<FALSE>> /\ calls[i].rec.state_after = "follow"
    /\ calls[j].rec.state_before = "following" /\ calls[j].ok = <<TRUE>>
    /\ calls[j].rec.state_after = "unavailable" /\ calls[j].rec.success

\* C2: in unfollow mode a call for a username of the whitelist touches no browser
\* operation, and the record it writes is tagged skip_whitelisted with success
\* true, whatever the profile would have shown; in follow mode a whitelisted
\* username is processed like any other: its profile is opened and, unless the
\* load fails, probed, and its record is never tagged skip_whitelisted.
C2_WhitelistSuppression ==
  \A i \in 1..Len(calls) :
    LET c == calls[i]
    IN (args.whitelist.given /\ c.rec.username \in args.whitelist.names) =>
         IF args.mode = "unfollow"
         THEN /\ c.browser = <<>>
              /\ c.rec.action = "skip_whitelisted"
              /\ c.rec.success = TRUE
              /\ c.rec.state_before = None
              /\ (~c.raised => c.written = <<c.rec>>)
         ELSE /\ c.browser # <<>>
              /\ c.browser[1] = "open_profile"
              /\ c.rec.action # "skip_whitelisted"
              /\ (c.rec.error = None => c.rec.state_before \in States)

\* an unfollow run skipped a whitelisted user and went on to probe another one
C2_Witness ==
  /\ args.mode = "unfollow"
  /\ Len(calls) = 2
  /\ calls[1].rec.username \in args.whitelist.names
  /\ calls[1].written # <<>>
  /\ calls[1].written[1].action = "skip_whitelisted"
  /\ calls[2].rec.state_before = "following"

\* the state part of C3
C3_Inv ==
  /\ Len(calls) <= Len(usernames)
  /\ Processed = SubSeq(usernames, 1, Len(calls))
  /\ \A i, j \in 1..Len(calls) : i # j => Processed[i] # Processed[j]
  /\ args.max_actions >= 0 => actions_done <= args.max_actions
  /\ (args.max_actions = 1 /\ Len(calls) >= 1 /\ calls[1].rec.action = "follow") => Len(calls) = 1
  /\ (/\ args.max_actions = 1
      /\ Len(usernames) >= 2
      /\ Len(calls) >= 1
      /\ calls[1].rec.action = "noop_already_following"
      /\ ~calls[1].raised
      /\ pc \in {"finally", "exited"}) => Len(calls) >= 2

\* C3: usernames are processed in list order, each at most once, never more than
\* the list holds; process_user is called only while actions_done is strictly
\* below max-actions; actions_done never exceeds a max-actions >= 0; with
\* max-actions = 1 a first user tagged follow is the only one processed, and a
\* first user whose call returns a record tagged noop_already_following is
\* followed by the second user before the run ends; and every run ends.
C3_Budget ==
  /\ C3_Inv
  /\ [][/\ C3_Inv'
        /\ Called => actions_done < args.max_actions
        /\ Called => NewCall.rec.username = usernames[idx]]_vars
  /\ <>(pc = "exited")

\* max-actions = 1: the first user was a no-op, so the second one was processed;
\* it was counted, and the loop is over
C3_Witness ==
  /\ args.max_actions = 1
  /\ Len(usernames) = 2
  /\ Len(calls) = 2
  /\ calls[1].rec.action = "noop_already_following"
  /\ calls[2].rec.action = "follow"
  /\ actions_done = 1
  /\ printed # <<>>

\* C4: a returned process_user call adds 0 to actions_done when its record is
\* tagged noop_already_following or noop_not_following and 1 for every other
\* record - skip_whitelisted, noop_unavailable, a failed click, an unset action -
\* and nothing else changes actions_done once the loop has started.
C4_CountingRule ==
  [][IF Called /\ ~NewCall.raised
     THEN actions_done' - actions_done =
            (IF NewCall.rec.action = "noop_already_following" THEN 0
             ELSE IF NewCall.rec.action = "noop_not_following" THEN 0
             ELSE 1)
     ELSE pc = "loop" => actions_done' = actions_done]_vars

\* a whitelisted skip and a caught fault were both counted
C4_Witness ==
  /\ Len(calls) = 2
  /\ calls[1].rec.action = "skip_whitelisted"
  /\ calls[2].rec.action = None
  /\ ~calls[2].raised
  /\ actions_done = 2

\* a call in which open_profile raised
LoadFault(c) == c.browser = <<"open_profile">>

\* C5: when open_profile raises (the prober and the click operations return a
\* value instead of raising), process_user catches the fault: the record has
\* success false, an unset action and a non-empty error, the profile fault does
\* not leave the call, and if the record's own write does not fail the record is
\* appended and main moves on to the next username with no fault pending.
C5_FaultIsolation ==
  /\ [](\A i \in 1..Len(calls) :
       LET c == calls[i]
       IN LoadFault(c) =>
            /\ c.rec.success = FALSE
            /\ c.rec.action = None
            /\ c.rec.error \notin {None, ""}
            /\ c.raised <=> c.written = <<>>
            /\ ~c.raised => c.written = <<c.rec>>
            /\ (~c.raised /\ i = Len(calls) /\ pc = "loop") =>
                 /\ idx = i + 1
                 /\ exc = None
                 /\ (idx <= Len(usernames) /\ actions_done < args.max_actions) => ENABLED ProcessUser)
  /\ [][(Called /\ LoadFault(NewCall) /\ ~NewCall.raised) =>
          /\ pc' = "loop"
          /\ idx' = idx + 1
          /\ exc' = None
          /\ log' = Append(log, NewCall.rec)]_vars

\* the first user's profile failed to load and the second user was processed
C5_Witness ==
  /\ Len(calls) = 2
  /\ LoadFault(calls[1])
  /\ calls[1].written # <<>>
  /\ calls[2].rec.state_before # None
  /\ calls[2].rec.success

\* C6: every step leaves the lines already in the log as they are; a step that is
\* a returned process_user call - a whitelisted skip (also one whose first write
\* failed), a no-op, a performed action, a caught fault - appends exactly one
\* line, the record of that call's username; no other step touches the log.  So
\* the log grows by one line per user processed, in processing order.
C6_OneRecordPerUser ==
  [][/\ Len(log') >= Len(log)
     /\ SubSeq(log', 1, Len(log)) = log
     /\ (Called /\ ~NewCall.raised) =>
          /\ log' = Append(log, NewCall.rec)
          /\ NewCall.rec.username = usernames[idx]
     /\ (Called /\ NewCall.raised) => log' = log
     /\ ~Called => log' = log]_vars

\* two users processed on top of a log of earlier runs; the first one is a
\* whitelisted skip whose first write failed
C6_Witness ==
  /\ Len(calls) = 2
  /\ calls[1].rec.action = "skip_whitelisted"
  /\ calls[1].rec.error = WriteError
  /\ ~calls[2].raised
  /\ Len(log) = 4

\* the login URL loaded, but the username field never rendered: neither wait
\* found it
FieldMissing ==
  /\ login.page # <<>>
  /\ login.page[1].loaded
  /\ ~login.page[1].present
  /\ ~login.page[1].user_ok

\* C9 as stated: a username field that does not render is not fatal to ig_login:
\* no fault leaves ig_login on its account, and with the rest of the form in
\* order the flow stands at the URL check that follows the submission.
C9_MissingFieldTolerated ==
  FieldMissing =>
    /\ exc # "TimeoutException@143"
    /\ (login.page[1].pass_ok /\ login.page[1].submit_ok) => pc \in {"login_check", "login_return"}

\* what an iteration of the loop of ig_login does when it finds no authenticated
\* URL (each lookup clicks its button or has its fault swallowed), and when it
\* finds one
FailedAttempts ==
  {<<"jitter_sleep", "current_url", d1, d2, "backoff_sleep">> :
     d1, d2 \in {"clicked", "swallowed"}}

GoodAttempt == <<"jitter_sleep", "current_url">>

\* the state part of C10
C10_Inv ==
  /\ login.checks <= 5
  /\ pc = "login_check" =>
       /\ login.attempt \in 1..5
       /\ login.checks = login.attempt - 1
       /\ login.checks > 0 => login.did \in FailedAttempts
       /\ ~login.authenticated
  /\ pc = "login_return" =>
       /\ exc = None
       /\ ENABLED LoginReturn
       /\ login.checks = login.attempt
       /\ IF login.authenticated
          THEN login.did = GoodAttempt
          ELSE login.attempt = 5 /\ login.did \in FailedAttempts

\* C10: ig_login checks the URL at most 5 times; the first check that finds an
\* authenticated non-login URL ends the loop at once, that attempt having done
\* no dismissal and no backoff; every attempt before it, and each of the 5
\* attempts when none succeeds, has checked, then looked for both "Not now"
\* buttons, then backed off; after 5 failed attempts ig_login returns without a
\* fault and main enters the processing loop.
C10_LoginRetry ==
  /\ C10_Inv
  /\ [][/\ C10_Inv'
        /\ (pc = "login_check" /\ pc' = "login_check") =>
             (login'.did \in FailedAttempts /\ login'.checks = login.checks + 1)
        /\ pc = "login_return" => (pc' = "loop" /\ exc' = None /\ driver' = "open")]_vars

\* five attempts failed, the last one with both lookups swallowed and its backoff
\* at the cap, and ig_login is returning
C10_Witness ==
  /\ pc = "login_return"
  /\ ~login.authenticated
  /\ login.checks = 5
  /\ login.did[3] = "swallowed" /\ login.did[4] = "swallowed"
  /\ login.delay = 120

\* the entries of a username file before they are normalised: the lines of a
\* text file, the first cells of the rows of a delimited one
RawEntries(file) ==
  IF file.kind = "csv"
  THEN LET rows == SelectSeq(split_lines(file.text), LAMBDA l : l # <<>>)
       IN [i \in 1..Len(rows) |-> first_cell(rows[i])]
  ELSE split_lines(file.text)

\* a call of read_usernames that returned a list
Loaded == pc = "returned" /\ ~fn_out[1].raised

\* xs without the elements that occurred before
RECURSIVE KeepFirst(_)
KeepFirst(xs) ==
  IF xs = <<>> THEN <<>>
  ELSE <<xs[1]>> \o KeepFirst(SelectSeq(Tail(xs), LAMBDA x : x # xs[1]))

\* an entry as C8 has it normalised: trimmed, one leading '@' at most removed
ClaimNormal(e) ==
  LET t == strip(e) IN strip(IF t # <<>> /\ t[1] = "@" THEN Tail(t) ELSE t)

Ats(k) == [i \in 1..k |-> "@"]

\* the name an entry stands for: what follows the leading '@'s of the trimmed
\* entry, however many they are
Yields(e, u) ==
  /\ u = <<>> \/ u[1] # "@"
  /\ \E k \in 0..Len(e) : strip(e) = Ats(k) \o u

\* the place of the first entry that stands for u
FirstOf(raw, u) == CHOOSE j \in 1..Len(raw) : Yields(raw[j], u) /\ \A m \in 1..(j - 1) : ~Yields(raw[m], u)

LogRead == pc = "returned" /\ "file" \in DOMAIN fn_in

\* xs without the elements that occur again later
RECURSIVE KeepLast(_)
KeepLast(xs) ==
  IF xs = <<>> THEN <<>>
  ELSE LET x == xs[Len(xs)]
       IN Append(KeepLast(SelectSeq(SubSeq(xs, 1, Len(xs) - 1), LAMBDA y : y # x)), x)

\* the last n elements of xs
MostRecent(xs, n) == IF n >= Len(xs) THEN xs ELSE SubSeq(xs, Len(xs) - n + 1, Len(xs))

\* a line that records a follow made in follow mode that succeeded
IsFollowed(line) ==
  /\ line # Malformed
  /\ line.mode = "follow"
  /\ line.action = "follow"
  /\ line.success = TRUE

\* C7 as stated: load_last_followed returns the usernames of the records with
\* mode follow, action follow and success true, in file order, each once at the
\* place of its last occurrence, cut to the most recent limit entries when a
\* limit is given.
C7_LastFollowed ==
  LogRead =>
    LET lines == SelectSeq(fn_in.file, IsFollowed)
        names == KeepLast([i \in 1..Len(lines) |-> lines[i].username])
    IN fn_out[1] = IF fn_in.limit.given THEN MostRecent(names, fn_in.limit.n) ELSE names

\* the button a lookup's answer is read from: the first displayed one, every
\* button before it having said it is not displayed, or the first button when
\* none is displayed
ReadFrom(btns, k) ==
  \/ btns[k].displayed = "yes" /\ \A m \in 1..(k - 1) : btns[m].displayed = "no"
  \/ k = 1 /\ \A m \in 1..Len(btns) : btns[m].displayed = "no"

\* the state a lookup yields: the button read from spells follow, following or
\* requested, capitals and surrounding white space aside
YieldsState(found, s) ==
  /\ s \in {"follow", "following", "requested"}
  /\ ~found.raised
  /\ \E k \in 1..Len(found.btns) :
       /\ ReadFrom(found.btns, k)
       /\ found.btns[k].text # <<>>
       /\ found.btns[k].text[1].word = s

YieldsNone(found) == \A s \in States : ~YieldsState(found, s)

\* the ways an iteration can pass on to the next candidate
Skips == {"lookup_raised", "no_match", "displayed_raised", "text_raised", "unrecognised"}

\* the state part of C11
C11_Inv ==
  /\ exc = None
  /\ (pc = "returned") <=> (fn_out # <<>>)
  /\ pc = "call" =>
       /\ ENABLED (FindElements \/ TryCandidate \/ ProbeUnavailable)
       /\ fn_in.xp = Len(fn_in.paths) + 1
       /\ \A i \in 1..Len(fn_in.paths) : fn_in.paths[i] \in Skips
  /\ pc = "returned" =>
       /\ fn_out[1] \in States
       /\ fn_in.xp \in 1..(Candidates + 1)
       /\ \A i \in 1..(Len(fn_in.paths) - 1) : fn_in.paths[i] \in Skips
       /\ (fn_out[1] = "unavailable") <=>
            (Len(fn_in.paths) = Candidates /\ \A i \in 1..Candidates : fn_in.paths[i] \in Skips)
       /\ fn_out[1] # "unavailable" =>
            /\ Len(fn_in.paths) = fn_in.xp
            /\ YieldsState(fn_in.found[1], fn_out[1])

\* C11: get_follow_state never raises and returns one of follow, following,
\* requested, unavailable.  The candidates are tried in order, one after the
\* other; a candidate whose lookup raises or matches nothing, whose visibility
\* check or text read raises, or whose button spells none of the three labels is
\* passed over for the next; the first candidate that yields a label ends the
\* call with that label's state; unavailable is returned exactly when all four
\* candidates were passed over.
C11_ProberTotalOrdered ==
  /\ [](C11_Inv)
  /\ [][/\ (pc = "call" /\ fn_in.found # <<>>) =>
             IF YieldsNone(fn_in.found[1])
             THEN /\ fn_in'.xp = fn_in.xp + 1
                  /\ fn_in'.found = <<>>
                  /\ fn_out' = <<>>
                  /\ pc' = "call"
                  /\ fn_in'.paths[fn_in.xp] \in Skips
                  /\ (fn_in.found[1].raised <=> fn_in'.paths[fn_in.xp] = "lookup_raised")
                  /\ ((~fn_in.found[1].raised /\ fn_in.found[1].btns = <<>>)
                        <=> fn_in'.paths[fn_in.xp] = "no_match")
             ELSE /\ pc' = "returned"
                  /\ YieldsState(fn_in.found[1], fn_out'[1])
                  /\ fn_in'.xp = fn_in.xp
        /\ (pc = "call" /\ fn_in.found = <<>>) =>
             IF fn_in.xp <= Candidates
             THEN fn_in'.xp = fn_in.xp /\ fn_in'.found # <<>> /\ pc' = "call"
             ELSE fn_out' = <<"unavailable">>]_vars

\* the first lookup raised, the second found a stale button, the third a button
\* whose text could not be read, and the fourth two buttons, of which the hidden
\* first was passed over for the displayed ' Following '
C11_Witness ==
  /\ pc = "returned"
  /\ fn_in.paths = <<"lookup_raised", "displayed_raised", "text_raised", "return">>
  /\ Len(fn_in.found[1].btns) = 2
  /\ fn_in.found[1].btns[1].displayed = "no"
  /\ fn_in.found[1].btns[1].text = <<Label("follow", TRUE, FALSE)>>
  /\ fn_in.found[1].btns[2].text = <<Label("following", TRUE, TRUE)>>
  /\ fn_out = <<"following">>

\* the log holds no record of a follow that succeeded
NothingFollowed == \A i \in 1..Len(log) : ~IsFollowed(log[i])

\* the three configuration errors: no credentials; no input file and not
\* --last-followed-only with --mode unfollow; a source that gives no username
ConfigBad ==
  \/ ~args.has_creds
  \/ ~args.input.given /\ ~(args.last_followed_only /\ args.mode = "unfollow")
  \/ /\ args.last_followed_only /\ args.mode = "unfollow"
     /\ NothingFollowed
  \/ /\ ~(args.last_followed_only /\ args.mode = "unfollow")
     /\ args.input.given
     /\ args.read_fault # "input"
     /\ args.input.list = <<>>

\* the state part of C12
C12_Inv ==
  ConfigBad =>
    /\ pc \in {"start", "exited"}
    /\ driver = "none"
    /\ session = NoSession
    /\ login = LoginIdle
    /\ calls = <<>>
    /\ printed = <<>>
    /\ pc = "exited" => status = 1

\* C12: with a configuration error the process ends with exit status 1; the
\* driver is never built, ig_login never starts, process_user is never called
\* and the log stays as it was.
C12_ConfigFatal ==
  /\ [](C12_Inv)
  /\ [][ConfigBad => (log' = log /\ driver' = "none" /\ pc' = "exited" /\ status' = 1)]_vars
  /\ [](ConfigBad => <>(pc = "exited" /\ status = 1))

\* credentials and an input file were given, but the file held no username
C12_Witness ==
  /\ pc = "exited"
  /\ status = 1
  /\ args.has_creds
  /\ args.input.given
  /\ args.read_fault = None
  /\ args.input.list = <<>>
  /\ args.whitelist.given
  /\ driver = "none"

\* C13 as stated, for a max-actions that is not negative: the number printed as
\* Processed at the end of the loop is the number of process_user calls made in
\* the run (each of which, having returned, wrote one record).
C13_ProcessedCount ==
  (printed # <<>> /\ args.max_actions >= 0) => printed[1] = Len(calls)

\* the state part of C14
C14_Inv ==
  /\ session.built \in {0, 1}
  /\ session.quits \in {0, 1}
  /\ session.quits <= session.built
  /\ driver = "open" <=> (session.built = 1 /\ session.quits = 0)
  /\ driver \in {"quit", "quit_failed"} <=> session.quits = 1
  /\ (session.built = 1 /\ session.quits = 0) => pc \notin {"start", "exited"}
  /\ (pc = "exited" /\ session.built = 1) =>
       /\ session.quits = 1
       /\ status = (IF exc = None THEN 0 ELSE 1)
       /\ exc = None <=> printed # <<>>

\* C14: build_driver returns at most once in a run, and only at startup.  Once
\* it has, whatever happens next - the loop runs to the end of the list, the
\* budget runs out, a fault leaves ig_login, a fault leaves process_user -
\* driver.quit() is called exactly once, as the last thing before the process
\* ends; whether quit returns or raises changes neither the fault that is
\* travelling up, if any, nor the exit status that goes with it.
C14_SessionCleanup ==
  /\ [](C14_Inv)
  /\ [][/\ session'.built # session.built => (pc = "start" /\ session' = [built |-> 1, quits |-> 0])
        /\ session'.quits # session.quits =>
             /\ pc = "finally" /\ pc' = "exited"
             /\ driver = "open"
             /\ session' = [built |-> 1, quits |-> 1]
        /\ pc = "finally" =>
             /\ session'.quits = session.quits + 1
             /\ driver' \in {"quit", "quit_failed"}
             /\ exc' = exc
             /\ status' = (IF exc = None THEN 0 ELSE 1)
        /\ (pc # "finally" /\ pc' = "exited") => driver = "none"]_vars
  /\ [](session.built = 1 => <>(pc = "exited" /\ session.quits = 1))

\* a write fault left process_user at the second user, driver.quit() raised in
\* turn, and the process ended with the write fault
C14_Witness ==
  /\ pc = "exited"
  /\ Len(calls) = 2
  /\ calls[2].raised
  /\ driver = "quit_failed"
  /\ session = [built |-> 1, quits |-> 1]
  /\ exc = WriteError
  /\ status = 1

\* a call that clicked, Follow or Following
Clicked(c) ==
  \E k \in 1..Len(c.browser) : c.browser[k] \in {"click_follow", "click_unfollow"}

\* a follow-mode call that found the account followed
FoundFollowing(c) == c.rec.mode = "follow" /\ c.rec.state_before = "following"

\* C15: every follow-mode call of process_user that probes 'following' yields a
\* record tagged noop_already_following with success true and clicks nothing,
\* however many such calls are made in a row; such a call leaves the account as
\* it found it, so that the next call meets the same state, and an account that
\* is followed stays followed through any number of follow-mode calls.
C15_FollowIdempotent ==
  /\ [](\A i \in 1..Len(fn_out) :
          FoundFollowing(fn_out[i]) =>
            /\ fn_out[i].rec.action = "noop_already_following"
            /\ fn_out[i].rec.success = TRUE
            /\ fn_out[i].rec.state_after = None
            /\ ~Clicked(fn_out[i])
            /\ fn_out[i].ok = <<>>
            /\ fn_out[i].browser = <<"open_profile", "get_follow_state">>)
  /\ [][/\ (Len(fn_out') > Len(fn_out) /\ FoundFollowing(fn_out'[Len(fn_out')])) =>
             fn_in'.account = fn_in.account
        /\ fn_in.account = "following" => fn_in'.account = "following"]_vars

\* a follow that took, and then two more runs that found nothing to do
C15_Witness ==
  /\ Len(fn_out) = 3
  /\ fn_out[1].rec.action = "follow"
  /\ fn_out[1].rec.state_after = "following"
  /\ fn_out[1].rec.success
  /\ FoundFollowing(fn_out[2])
  /\ fn_out[2].written # <<>>
  /\ FoundFollowing(fn_out[3])
  /\ fn_out[3].written # <<>>
  /\ fn_in.account = "following"

\* the state part of C16: every call that returned has had its sleep, and only
\* a call that did not return - the last one of its run - has none
C16_Inv ==
  /\ sleeps = Cardinality({i \in 1..Len(calls) : ~calls[i].raised})
  /\ \A i \in 1..Len(calls) : calls[i].raised => (i = Len(calls) /\ pc \in {"finally", "exited"})
  /\ pacing # <<>> => (pc = "loop" /\ sleeps > 0)

\* C16: each process_user call that returns to the loop is followed, in the
\* same iteration, by exactly one pacing sleep whose duration lies between
\* --min-wait and --max-wait, whether the record counted toward the budget or
\* not; nothing else in the loop sleeps for pacing; so when a user is
\* processed, every user before has had a sleep.
C16_PacingSleep ==
  /\ [](C16_Inv)
  /\ [][/\ (Called /\ ~NewCall.raised) =>
             /\ sleeps' = sleeps + 1
             /\ pacing' # <<>>
             /\ pacing'[1] >= args.min_wait
             /\ pacing'[1] <= args.max_wait
        /\ ~(Called /\ ~NewCall.raised) => (sleeps' = sleeps /\ pacing' = <<>>)
        /\ Called => sleeps = Len(calls)]_vars

\* two users processed, the first one free of charge; each was followed by a
\* sleep, the second one's of 9 seconds
C16_Witness ==
  /\ pc = "loop"
  /\ Len(calls) = 2
  /\ calls[1].rec.action = "noop_already_following"
  /\ counted(calls[2].rec) = 1
  /\ sleeps = 2
  /\ pacing = <<9>>

\* a returned click_unfollow call
Unfollowed == pc = "returned" /\ "following" \in DOMAIN fn_in

\* the confirmation XPaths whose button was found clickable and took the click
Confirming == {k \in 1..ConfirmXPaths : takes_click(fn_in.confirms[k])}

\* the operations on the confirmation XPaths 1 to k, the last of them a click
\* that went through
ConfirmedAt(k) ==
  LET tried(j) == IF fn_in.confirms[j].wait = "clickable"
                  THEN <<"wait_confirm", "click_confirm">> ELSE <<"wait_confirm">>
      upto[j \in 0..k] == IF j = 0 THEN <<>> ELSE upto[j - 1] \o tried(j)
  IN upto[k]

\* C17: click_unfollow returns a boolean and never raises.  It returns true
\* exactly when the 'Following' button was found and clicked and the
\* confirmation button of some XPath was found and clicked; the XPaths are
\* tried in order, each at most once, and the call ends with the first click
\* that goes through.  When the wait for 'Following' or the click on it fails,
\* no confirmation is looked for; when 'Following' was clicked and no
\* confirmation click goes through, every XPath has been tried and the value is
\* false.
C17_UnfollowConfirmed ==
  Unfollowed =>
    LET r == fn_out[1]
        opened == fn_in.following.wait = "clickable" /\ fn_in.following.click = "ok"
    IN /\ r.value \in BOOLEAN
       /\ exc = None
       /\ r.value <=> (opened /\ Confirming # {})
       /\ ~opened =>
            /\ r.value = FALSE
            /\ \A i \in 1..Len(r.did) : r.did[i] \in {"wait_following", "click_following"}
       /\ r.did[1] = "wait_following"
       /\ opened =>
            /\ SubSeq(r.did, 1, 2) = <<"wait_following", "click_following">>
            /\ IF Confirming # {}
               THEN LET k == CHOOSE j \in Confirming : \A m \in Confirming : j <= m
                    IN SubSeq(r.did, 3, Len(r.did)) = ConfirmedAt(k)
               ELSE SubSeq(r.did, 3, Len(r.did)) = ConfirmedAt(ConfirmXPaths)

\* 'Following' was clicked, the click on the generic confirmation button
\* raised, and the button scoped to the dialog took the click
C17_Witness ==
  /\ Unfollowed
  /\ fn_in.confirms[1] = [wait |-> "clickable", click |-> "raises"]
  /\ fn_out[1].value = TRUE
  /\ fn_out[1].did = <<"wait_following", "click_following", "wait_confirm", "click_confirm",
                       "wait_confirm", "click_confirm">>

\* the places of a call's browser trace that hold the operation op
Places(c, op) == {k \in 1..Len(c.browser) : c.browser[k] = op}

\* the username of a call is on the whitelist of the run
Whitelisted(c) == args.whitelist.given /\ c.rec.username \in args.whitelist.names

\* C18: in every call of every run, click_follow is invoked only in follow mode
\* with the state probed just before it being 'follow', and click_unfollow only
\* in unfollow mode, for a username that is not whitelisted, with the state
\* probed just before it being 'following'; a call invokes at most one click, the
\* probe comes right before it and a second probe right after it; state_after is
\* set on the record exactly when a click was invoked.
C18_ClicksOnlyWhenActionable ==
  \A i \in 1..Len(calls) :
    LET c == calls[i]
        clicks == Places(c, "click_follow") \cup Places(c, "click_unfollow")
    IN /\ Places(c, "click_follow") # {} =>
            (c.rec.mode = "follow" /\ args.mode = "follow" /\ c.rec.state_before = "follow")
       /\ Places(c, "click_unfollow") # {} =>
            /\ c.rec.mode = "unfollow" /\ args.mode = "unfollow"
            /\ ~Whitelisted(c)
            /\ c.rec.state_before = "following"
       /\ Cardinality(clicks) <= 1
       /\ \A k \in clicks :
            /\ k = 3
            /\ SubSeq(c.browser, 1, 2) = <<"open_profile", "get_follow_state">>
            /\ Len(c.browser) = 4
            /\ c.browser[4] = "get_follow_state"
       /\ (c.rec.state_after # None) <=> (clicks # {})
       /\ c.rec.state_after # None => c.rec.state_after \in States
       /\ (clicks # {}) <=> (c.ok # <<>>)

\* an unfollow run with alice whitelisted: alice was skipped without a click,
\* bob, found followed, was unfollowed by one click and probed again
C18_Witness ==
  /\ args.mode = "unfollow"
  /\ Len(calls) = 2
  /\ Whitelisted(calls[1])
  /\ calls[1].browser = <<>>
  /\ calls[2].rec.state_before = "following"
  /\ calls[2].browser = <<"open_profile", "get_follow_state", "click_unfollow", "get_follow_state">>
  /\ calls[2].rec.state_after = "follow"
  /\ calls[2].written # <<>>

\* a line written by a follow-mode call of process_user that found the account
\* not followed, whose click returned true and whose second probe saw the
\* account followed or requested
GenuineFollows ==
  {process_user(u, "follow", w, e).written[1] :
     u \in LogNames, w \in Whitelists,
     e \in {x \in LogEnvs : /\ x.open /\ x.probe1 = "follow" /\ x.click
                            /\ x.probe2 \in {"following", "requested"}}}

GenuineFollow(line) == line \in GenuineFollows

\* the usernames of a sequence, as a set
Members(xs) == {xs[k] : k \in 1..Len(xs)}

\* C19: on a log whose records process_user wrote, every username
\* load_last_followed returns is the username of a record of a follow-mode call
\* whose click returned true and whose state_after is following or requested;
\* a username whose records are all of other kinds - unfollow mode, no-op,
\* whitelisted skip, failed click, unverified click, caught fault - is not
\* returned; with no limit, every username of such a record is returned.
C19_OnlyFollowedListed ==
  LogRead =>
    LET file == fn_in.file
        genuine == {file[i].username : i \in {j \in 1..Len(file) : GenuineFollow(file[j])}}
    IN /\ Members(fn_out[1]) \subseteq genuine
       /\ \A i \in 1..Len(file) :
            (file[i] # Malformed /\ file[i].username \in Members(fn_out[1])) =>
              \E j \in 1..Len(file) :
                /\ file[j] # Malformed
                /\ file[j].username = file[i].username
                /\ file[j].mode = "follow"
                /\ file[j].action = "follow"
                /\ file[j].success = TRUE
                /\ file[j].state_before = "follow"
                /\ file[j].state_after \in {"following", "requested"}
                /\ file[j].error = None
       /\ ~fn_in.limit.given => Members(fn_out[1]) = genuine

\* alice was unfollowed, then clicked to follow without the click taking; bob
\* was followed: bob alone is listed
C19_Witness ==
  /\ LogRead
  /\ Len(fn_in.file) = 3
  /\ fn_in.file[1] # Malformed /\ fn_in.file[2] # Malformed /\ fn_in.file[3] # Malformed
  /\ fn_in.file[1].username = "alice" /\ fn_in.file[1].action = "unfollow" /\ fn_in.file[1].success
  /\ fn_in.file[2].username = "alice" /\ fn_in.file[2].action = "follow" /\ ~fn_in.file[2].success
  /\ fn_in.file[3].username = "bob" /\ GenuineFollow(fn_in.file[3])
  /\ fn_out[1] = <<"bob">>

\* C20 as stated: in every record process_user appended to the log, success
\* true goes with an unset error and a set error with success false, on every
\* path, the one where writing the record of a whitelisted skip raises included.
C20_SuccessExcludesError ==
  \A i \in 1..Len(calls) : \A k \in 1..Len(calls[i].written) :
    LET r == calls[i].written[k]
    IN /\ r.success = TRUE => r.error = None
       /\ r.error # None => r.success = FALSE

====
